---- MODULE Spec2Model ----
(***************************************************************************)
(* A model of libsigrok's message logging (log.c): the process-wide        *)
(* loglevel, log options, log domain and log callback, the setters and     *)
(* getters, the default callback sr_logv() and the severity wrappers       *)
(* sr_spew() .. sr_err().                                                  *)
(*                                                                         *)
(* What one API call wrote to stderr is kept in errout as a sequence of    *)
(* segments [kind, val, len]; the callback invocations one API call made   *)
(* are kept in calls.  Both are reset at the start of every call, so they  *)
(* describe the last call only.                                            *)
(***************************************************************************)
EXTENDS Integers, Sequences, FiniteSets, TLC

(* ---- bounds of the model ---- *)
MaxInputLen == 40          \* longest logdomain text handed to the setter
MaxBadLevel == 6           \* largest (invalid) loglevel handed to the setter
MaxBadOpts == 32           \* largest (invalid) option mask handed to the setter

(* ---- values of libsigrok.h ---- *)
SR_OK == 0
SR_ERR_ARG == -3
SR_LOG_NONE == 0
SR_LOG_ERR == 1
SR_LOG_WARN == 2
SR_LOG_INFO == 3
SR_LOG_DBG == 4
SR_LOG_SPEW == 5
SR_LOG_NOOPTS == 0
SR_LOG_DATE == 1
SR_LOG_TIME == 2
SR_LOG_TIME_MS == 4
SR_LOG_TIME_US == 8
SR_LOG_UTC == 16

(* ---- values of log.c ---- *)
LOGDOMAIN_MAXLEN == 30
LOGDOMAIN_DEFAULT == <<"s", "r", ":", " ">>

(* The five flags are distinct bits, so | of them is their sum. *)
ALL_LOGOPTS == SR_LOG_DATE + SR_LOG_TIME + SR_LOG_TIME_MS + SR_LOG_TIME_US + SR_LOG_UTC

(* x & flag # 0, for a flag that is a single bit and x >= 0 *)
HasFlag(x, flag) == (x \div flag) % 2 = 1

Min(a, b) == IF a < b THEN a ELSE b

Take(s, n) == SubSeq(s, 1, Min(Len(s), n))

(* ---- the values callers pass ---- *)
NULL == "NULL"
UserCallbacks == {"cb_a"}
Contexts == {NULL, "ctx1"}
Alphabet == <<"a", "b", "c", "d", "e", "f", "g", "h", "i", "j">>
Text(n) == [i \in 1..n |-> Alphabet[((i - 1) % 10) + 1]]
DomainLens == {0, LOGDOMAIN_MAXLEN - 1, LOGDOMAIN_MAXLEN, MaxInputLen}
DomainInputs == {Text(n) : n \in DomainLens}
LevelInputs == (SR_LOG_NONE - 1)..MaxBadLevel
OptsInputs == (SR_LOG_NOOPTS - 1)..MaxBadOpts

(* ---- what the C library does in one call of sr_logv(): gmtime_r() or
        localtime_r() succeeds ("ok") or fails and leaves struct tm
        indeterminate, which strftime() then renders as a year of four
        digits ("fail4") or of more ("fail7") ---- *)
Envs == {"ok", "fail4", "fail7"}
DiagLen == 20

(* ---- formatted messages: the format, its argument and the number of
        characters vfprintf() writes for it ---- *)
RECURSIVE DecLen(_)
DecLen(n) == IF n < 0 THEN 1 + DecLen(-n) ELSE IF n < 10 THEN 1 ELSE 1 + DecLen(n \div 10)

MsgD(fmt, fixed, n) == [fmt |-> fmt, n |-> n, s |-> <<>>, len |-> fixed + DecLen(n)]
MsgS(fmt, fixed, s) == [fmt |-> fmt, n |-> 0, s |-> s, len |-> fixed + Len(s)]
UserMsgs == {MsgD("failed: %d", 8, 42)}

(* a user callback: a sink that reports the characters it took, and an
   error when it was registered without a context *)
UserCbResult(cb, data, loglevel, msg) == IF data = NULL THEN -1 ELSE msg.len

(* one fprintf() to stderr: what it renders and how many characters *)
Seg(kind, len) == [kind |-> kind, len |-> len]

VARIABLES
  cur_loglevel,      \* static int cur_loglevel
  cur_logopts,       \* static int cur_logopts
  sr_log_cb,         \* static sr_log_callback sr_log_cb
  sr_log_cb_data,    \* static void *sr_log_cb_data
  sr_log_domain,     \* static char sr_log_domain[], as the string it holds
  errout,            \* what the last call wrote to stderr
  calls,             \* the callback invocations of the last call
  op,                \* the last call: name, arguments, return value
  th                 \* the two threads of the concurrent specification

vars == <<cur_loglevel, cur_logopts, sr_log_cb, sr_log_cb_data, sr_log_domain, errout, calls, op, th>>
config == <<cur_loglevel, cur_logopts, sr_log_cb, sr_log_cb_data, sr_log_domain>>

(* the configuration a callback sees when it runs *)
St(lvl, opts, dom) == [lvl |-> lvl, opts |-> opts, dom |-> dom]
CurSt == St(cur_loglevel, cur_logopts, sr_log_domain)

(* ---- sr_logv(), the default callback ---- *)

(* the filter with the comparison off by one: a message at the threshold is dropped *)
Filtered_AtThreshold(loglevel, lvl) == loglevel >= lvl

(* log.c:277  if (loglevel > cur_loglevel) return SR_OK; *)
Filtered(loglevel, lvl) == loglevel > lvl

(* log.c:283 *)
WantsTimestamp(opts) ==
  HasFlag(opts, SR_LOG_DATE) \/ HasFlag(opts, SR_LOG_TIME)
    \/ HasFlag(opts, SR_LOG_TIME_MS) \/ HasFlag(opts, SR_LOG_TIME_US)

(* log.c:297-302: the diagnostic of a failed conversion *)
ConvDiag(opts, env) ==
  IF env # "ok"
    THEN <<Seg(IF HasFlag(opts, SR_LOG_UTC) THEN "gmtime_r() failed" ELSE "localtime_r() failed",
               DiagLen)>>
    ELSE <<>>

(* log.c:304-307: strftime "%Y%m%d " *)
DateSeg(opts, env) ==
  IF HasFlag(opts, SR_LOG_DATE)
    THEN <<Seg("YYYYMMDD ", IF env = "fail7" THEN 12 ELSE 9)>>
    ELSE <<>>

(* the fraction with the milliseconds tested first *)
FractionSeg_MsFirst(opts) ==
  IF HasFlag(opts, SR_LOG_TIME_MS)
    THEN Seg(",MMM ", 5)
  ELSE IF HasFlag(opts, SR_LOG_TIME_US)
    THEN Seg(",UUUUUU ", 8)
  ELSE Seg(" ", 1)

(* log.c:311-316 *)
FractionSeg(opts) ==
  IF HasFlag(opts, SR_LOG_TIME_US)
    THEN Seg(",UUUUUU ", 8)
  ELSE IF HasFlag(opts, SR_LOG_TIME_MS)
    THEN Seg(",MMM ", 5)
  ELSE Seg(" ", 1)

(* log.c:308-317: strftime "%H%M%S", then the fraction *)
TimeSeg(opts) ==
  IF HasFlag(opts, SR_LOG_TIME) \/ HasFlag(opts, SR_LOG_TIME_MS) \/ HasFlag(opts, SR_LOG_TIME_US)
    THEN <<Seg("HHMMSS", 6), FractionSeg(opts)>>
    ELSE <<>>

(* log.c:283-318 *)
Timestamp(opts, env) ==
  IF WantsTimestamp(opts)
    THEN ConvDiag(opts, env) \o DateSeg(opts, env) \o TimeSeg(opts)
    ELSE <<>>

(* log.c:321-322 *)
DomainSeg(dom) ==
  IF dom # <<>> THEN <<Seg("domain", Len(dom))>> ELSE <<>>

RECURSIVE SumLen(_)
SumLen(segs) == IF segs = <<>> THEN 0 ELSE Head(segs).len + SumLen(Tail(segs))

(* log.c:280-326: ret adds up what the timestamp fprintf()s and the
   vfprintf() return; the fprintf()s of the domain and of the newline are
   not added *)
LogvRet(opts, msg, env) == SumLen(Timestamp(opts, env)) + msg.len

sr_logv(cb_data, loglevel, msg, st, env) ==
  IF Filtered(loglevel, st.lvl)
    THEN [ret |-> SR_OK, out |-> <<>>]
    ELSE [ret |-> LogvRet(st.opts, msg, env),
          out |-> Timestamp(st.opts, env) \o DomainSeg(st.dom)
                    \o <<Seg("message", msg.len), Seg("newline", 1)>>]

(* ---- the call through sr_log_cb: sr_log_cb(sr_log_cb_data, level, ...) ---- *)
Invocation(cb, data, loglevel, msg, st, ret) ==
  [cb |-> cb, data |-> data, level |-> loglevel, msg |-> msg, lvlAtCall |-> st.lvl, ret |-> ret]

CallCb(cb, data, loglevel, msg, st, env) ==
  IF cb = "sr_logv"
    THEN LET r == sr_logv(data, loglevel, msg, st, env)
         IN  [ret |-> r.ret, out |-> r.out,
              calls |-> <<Invocation(cb, data, loglevel, msg, st, r.ret)>>]
    ELSE LET ret == UserCbResult(cb, data, loglevel, msg)
         IN  [ret |-> ret, out |-> <<>>,
              calls |-> <<Invocation(cb, data, loglevel, msg, st, ret)>>]

(* sr_warn() and sr_err() with the severity of the neighbouring wrapper *)
sr_warn_AsInfo(cb, data, msg, st, env) == CallCb(cb, data, SR_LOG_INFO, msg, st, env)
sr_err_AsWarn(cb, data, msg, st, env) == CallCb(cb, data, SR_LOG_WARN, msg, st, env)

(* ---- the severity wrappers; cb and data are the registry at the call ---- *)
sr_spew(cb, data, msg, st, env) == CallCb(cb, data, SR_LOG_SPEW, msg, st, env)
sr_dbg(cb, data, msg, st, env) == CallCb(cb, data, SR_LOG_DBG, msg, st, env)
sr_info(cb, data, msg, st, env) == CallCb(cb, data, SR_LOG_INFO, msg, st, env)
sr_warn(cb, data, msg, st, env) == CallCb(cb, data, SR_LOG_WARN, msg, st, env)
sr_err(cb, data, msg, st, env) == CallCb(cb, data, SR_LOG_ERR, msg, st, env)

(* what a call of the callback can meet: only the default callback with a
   message that passes the filter and a timestamp to render converts the
   clock *)
EnvsFor(cb, loglevel, st) ==
  IF cb = "sr_logv" /\ ~Filtered(loglevel, st.lvl) /\ WantsTimestamp(st.opts)
    THEN Envs
    ELSE {"ok"}

(* the record of a call: n an integer argument, s a string argument, cb and
   data the callback arguments, ret and
   rets the integer or string result *)
Op(name, n, s, cb, data, ret) ==
  [name |-> name, n |-> n, s |-> s, cb |-> cb, data |-> data,
   ret |-> ret, rets |-> <<>>]

(* the two threads of the concurrent specification, both outside the
   library: spc and epc are their positions in sr_log_callback_set() and
   sr_err(), scb/sdata the arguments of the setter, ecb/edata what the
   emitter has loaded (ldcb/lddata: whether it has).  last is the pair the
   last returned sr_log_callback_set() registered, seen is last as it was
   when the emitter entered sr_err(), pairs every pair ever handed to the
   setter, overlap whether the emitter's loads overlapped a setter
   call. *)
ThreadsIdle ==
  [spc |-> "idle", scb |-> NULL, sdata |-> NULL,
   epc |-> "idle", ecb |-> NULL, edata |-> NULL, ldcb |-> FALSE, lddata |-> FALSE,
   last |-> <<"sr_logv", NULL>>, seen |-> <<"sr_logv", NULL>>, pairs |-> {<<"sr_logv", NULL>>}, overlap |-> FALSE]

Init ==
  /\ cur_loglevel = SR_LOG_WARN
  /\ cur_logopts = SR_LOG_NOOPTS
  /\ sr_log_cb = "sr_logv"
  /\ sr_log_cb_data = NULL
  /\ sr_log_domain = LOGDOMAIN_DEFAULT
  /\ errout = <<>>
  /\ calls = <<>>
  /\ op = Op("init", 0, <<>>, NULL, NULL, 0)
  /\ th = ThreadsIdle

(* sr_log_loglevel_set() storing the level before it validates it *)
sr_log_loglevel_set_StoreFirst(loglevel) ==
  IF loglevel < SR_LOG_NONE \/ loglevel > SR_LOG_SPEW
    THEN \E env \in EnvsFor(sr_log_cb, SR_LOG_ERR, St(loglevel, cur_logopts, sr_log_domain)) :
           LET r == sr_err(sr_log_cb, sr_log_cb_data,
                           MsgD("Invalid loglevel %d.", 18, loglevel),
                           St(loglevel, cur_logopts, sr_log_domain), env)
           IN  /\ cur_loglevel' = loglevel
               /\ errout' = r.out
               /\ calls' = r.calls
               /\ op' = Op("loglevel_set", loglevel, <<>>, NULL, NULL, SR_ERR_ARG)
               /\ UNCHANGED <<cur_logopts, sr_log_cb, sr_log_cb_data, sr_log_domain, th>>
    ELSE \E env \in EnvsFor(sr_log_cb, SR_LOG_DBG, St(loglevel, cur_logopts, sr_log_domain)) :
           LET r == sr_dbg(sr_log_cb, sr_log_cb_data,
                           MsgD("libsigrok loglevel set to %d.", 27, loglevel),
                           St(loglevel, cur_logopts, sr_log_domain), env)
           IN  /\ cur_loglevel' = loglevel
               /\ errout' = r.out
               /\ calls' = r.calls
               /\ op' = Op("loglevel_set", loglevel, <<>>, NULL, NULL, SR_OK)
               /\ UNCHANGED <<cur_logopts, sr_log_cb, sr_log_cb_data, sr_log_domain, th>>

(* sr_log_loglevel_set() emitting its confirmation before it stores the level *)
sr_log_loglevel_set_ConfirmFirst(loglevel) ==
  IF loglevel < SR_LOG_NONE \/ loglevel > SR_LOG_SPEW
    THEN \E env \in EnvsFor(sr_log_cb, SR_LOG_ERR, CurSt) :
           LET r == sr_err(sr_log_cb, sr_log_cb_data,
                           MsgD("Invalid loglevel %d.", 18, loglevel), CurSt, env)
           IN  /\ errout' = r.out
               /\ calls' = r.calls
               /\ op' = Op("loglevel_set", loglevel, <<>>, NULL, NULL, SR_ERR_ARG)
               /\ UNCHANGED <<config, th>>
    ELSE \E env \in EnvsFor(sr_log_cb, SR_LOG_DBG, CurSt) :
           LET r == sr_dbg(sr_log_cb, sr_log_cb_data,
                           MsgD("libsigrok loglevel set to %d.", 27, loglevel), CurSt, env)
           IN  /\ cur_loglevel' = loglevel
               /\ errout' = r.out
               /\ calls' = r.calls
               /\ op' = Op("loglevel_set", loglevel, <<>>, NULL, NULL, SR_OK)
               /\ UNCHANGED <<cur_logopts, sr_log_cb, sr_log_cb_data, sr_log_domain, th>>

(* ---- sr_log_loglevel_set() ---- *)
sr_log_loglevel_set(loglevel) ==
  IF loglevel < SR_LOG_NONE \/ loglevel > SR_LOG_SPEW
    THEN \E env \in EnvsFor(sr_log_cb, SR_LOG_ERR, CurSt) :
           LET r == sr_err(sr_log_cb, sr_log_cb_data,
                           MsgD("Invalid loglevel %d.", 18, loglevel), CurSt, env)
           IN  /\ errout' = r.out
               /\ calls' = r.calls
               /\ op' = Op("loglevel_set", loglevel, <<>>, NULL, NULL, SR_ERR_ARG)
               /\ UNCHANGED <<config, th>>
    ELSE \E env \in EnvsFor(sr_log_cb, SR_LOG_DBG, St(loglevel, cur_logopts, sr_log_domain)) :
           LET r == sr_dbg(sr_log_cb, sr_log_cb_data,
                           MsgD("libsigrok loglevel set to %d.", 27, loglevel),
                           St(loglevel, cur_logopts, sr_log_domain), env)
           IN  /\ cur_loglevel' = loglevel
               /\ errout' = r.out
               /\ calls' = r.calls
               /\ op' = Op("loglevel_set", loglevel, <<>>, NULL, NULL, SR_OK)
               /\ UNCHANGED <<cur_logopts, sr_log_cb, sr_log_cb_data, sr_log_domain, th>>

LoglevelSet == \E loglevel \in LevelInputs : sr_log_loglevel_set(loglevel)

(* ---- sr_log_loglevel_get() ---- *)
sr_log_loglevel_get ==
  /\ errout' = <<>>
  /\ calls' = <<>>
  /\ op' = Op("loglevel_get", 0, <<>>, NULL, NULL, cur_loglevel)
  /\ UNCHANGED <<config, th>>

(* ---- sr_log_logopts_set() ---- *)
sr_log_logopts_set(logopts) ==
  IF logopts < SR_LOG_NOOPTS \/ logopts > ALL_LOGOPTS
    THEN \E env \in EnvsFor(sr_log_cb, SR_LOG_ERR, CurSt) :
           LET r == sr_err(sr_log_cb, sr_log_cb_data,
                           MsgD("Invalid log options %d.", 21, logopts), CurSt, env)
           IN  /\ errout' = r.out
               /\ calls' = r.calls
               /\ op' = Op("logopts_set", logopts, <<>>, NULL, NULL, SR_ERR_ARG)
               /\ UNCHANGED <<config, th>>
    ELSE \E env \in EnvsFor(sr_log_cb, SR_LOG_DBG, St(cur_loglevel, logopts, sr_log_domain)) :
           LET r == sr_dbg(sr_log_cb, sr_log_cb_data,
                           MsgD("libsigrok log options set to %d.", 30, logopts),
                           St(cur_loglevel, logopts, sr_log_domain), env)
           IN  /\ cur_logopts' = logopts
               /\ errout' = r.out
               /\ calls' = r.calls
               /\ op' = Op("logopts_set", logopts, <<>>, NULL, NULL, SR_OK)
               /\ UNCHANGED <<cur_loglevel, sr_log_cb, sr_log_cb_data, sr_log_domain, th>>

LogoptsSet == \E logopts \in OptsInputs : sr_log_logopts_set(logopts)

(* ---- sr_log_logopts_get() ---- *)
sr_log_logopts_get ==
  /\ errout' = <<>>
  /\ calls' = <<>>
  /\ op' = Op("logopts_get", 0, <<>>, NULL, NULL, cur_logopts)
  /\ UNCHANGED <<config, th>>

(* ---- sr_log_logdomain_set() ---- *)

(* snprintf(buf, size, "%s", s): at most size - 1 characters and the NUL *)
snprintf(size, s) == Take(s, size - 1)

(* log.c:195 *)
StoreDomain(logdomain) == snprintf(LOGDOMAIN_MAXLEN, logdomain)

(* log.c:189-192: logdomain is NULL *)
sr_log_logdomain_set_null ==
  \E env \in EnvsFor(sr_log_cb, SR_LOG_ERR, CurSt) :
    LET r == sr_err(sr_log_cb, sr_log_cb_data,
                    MsgS("log: %s: logdomain was NULL", 43, <<>>), CurSt, env)
    IN  /\ errout' = r.out
        /\ calls' = r.calls
        /\ op' = Op("logdomain_set_null", 0, <<>>, NULL, NULL, SR_ERR_ARG)
        /\ UNCHANGED <<config, th>>

(* log.c:194-199: logdomain is a string *)
sr_log_logdomain_set(logdomain) ==
  \E env \in EnvsFor(sr_log_cb, SR_LOG_DBG, CurSt) :
    LET dom == StoreDomain(logdomain)
        r == sr_dbg(sr_log_cb, sr_log_cb_data,
                    MsgS("Log domain set to '%s'.", 21, dom),
                    St(cur_loglevel, cur_logopts, dom), env)
    IN  /\ sr_log_domain' = dom
        /\ errout' = r.out
        /\ calls' = r.calls
        /\ op' = Op("logdomain_set", 0, logdomain, NULL, NULL, SR_OK)
        /\ UNCHANGED <<cur_loglevel, cur_logopts, sr_log_cb, sr_log_cb_data, th>>

LogdomainSet == \E logdomain \in DomainInputs : sr_log_logdomain_set(logdomain)

(* ---- sr_log_logdomain_get(): g_strdup() of the domain ---- *)
g_strdup(s) == s

sr_log_logdomain_get ==
  /\ errout' = <<>>
  /\ calls' = <<>>
  /\ op' = [Op("logdomain_get", 0, <<>>, NULL, NULL, 0) EXCEPT !.rets = g_strdup(sr_log_domain)]
  /\ UNCHANGED <<config, th>>

(* ---- sr_log_callback_set() ---- *)
sr_log_callback_set(cb, cb_data) ==
  IF cb = NULL
    THEN \E env \in EnvsFor(sr_log_cb, SR_LOG_ERR, CurSt) :
           LET r == sr_err(sr_log_cb, sr_log_cb_data,
                           MsgS("log: %s: cb was NULL", 35, <<>>), CurSt, env)
           IN  /\ errout' = r.out
               /\ calls' = r.calls
               /\ op' = Op("callback_set", 0, <<>>, cb, cb_data, SR_ERR_ARG)
               /\ UNCHANGED <<config, th>>
    ELSE /\ sr_log_cb' = cb
         /\ sr_log_cb_data' = cb_data
         /\ errout' = <<>>
         /\ calls' = <<>>
         /\ op' = Op("callback_set", 0, <<>>, cb, cb_data, SR_OK)
         /\ UNCHANGED <<cur_loglevel, cur_logopts, sr_log_domain, th>>

CallbackSet ==
  \E cb \in UserCallbacks \cup {NULL} : \E cb_data \in Contexts :
    sr_log_callback_set(cb, cb_data)

(* sr_log_callback_set_default() reporting the change through the callback
   it is about to replace *)
sr_log_callback_set_default_Logging ==
  LET r == sr_dbg(sr_log_cb, sr_log_cb_data,
                  MsgS("log callback set to default.", 28, <<>>), CurSt, "ok")
  IN  /\ sr_log_cb' = "sr_logv"
      /\ sr_log_cb_data' = NULL
      /\ errout' = r.out
      /\ calls' = r.calls
      /\ op' = Op("callback_set_default", 0, <<>>, NULL, NULL, SR_OK)
      /\ UNCHANGED <<cur_loglevel, cur_logopts, sr_log_domain, th>>

(* ---- sr_log_callback_set_default() ---- *)
sr_log_callback_set_default ==
  /\ sr_log_cb' = "sr_logv"
  /\ sr_log_cb_data' = NULL
  /\ errout' = <<>>
  /\ calls' = <<>>
  /\ op' = Op("callback_set_default", 0, <<>>, NULL, NULL, SR_OK)
  /\ UNCHANGED <<cur_loglevel, cur_logopts, sr_log_domain, th>>

(* ---- a call of one of the emission functions by the library ---- *)
Emit(name, loglevel, r) ==
  /\ errout' = r.out
  /\ calls' = r.calls
  /\ op' = Op(name, loglevel, <<>>, NULL, NULL, r.ret)
  /\ UNCHANGED <<config, th>>

SrLog ==
  \E loglevel \in SR_LOG_NONE..SR_LOG_SPEW : \E msg \in UserMsgs :
    \E env \in EnvsFor(sr_log_cb, loglevel, CurSt) :
      Emit("sr_log", loglevel, CallCb(sr_log_cb, sr_log_cb_data, loglevel, msg, CurSt, env))

SrSpew ==
  \E msg \in UserMsgs : \E env \in EnvsFor(sr_log_cb, SR_LOG_SPEW, CurSt) :
    Emit("sr_spew", 0, sr_spew(sr_log_cb, sr_log_cb_data, msg, CurSt, env))

SrDbg ==
  \E msg \in UserMsgs : \E env \in EnvsFor(sr_log_cb, SR_LOG_DBG, CurSt) :
    Emit("sr_dbg", 0, sr_dbg(sr_log_cb, sr_log_cb_data, msg, CurSt, env))

SrInfo ==
  \E msg \in UserMsgs : \E env \in EnvsFor(sr_log_cb, SR_LOG_INFO, CurSt) :
    Emit("sr_info", 0, sr_info(sr_log_cb, sr_log_cb_data, msg, CurSt, env))

SrWarn ==
  \E msg \in UserMsgs : \E env \in EnvsFor(sr_log_cb, SR_LOG_WARN, CurSt) :
    Emit("sr_warn", 0, sr_warn(sr_log_cb, sr_log_cb_data, msg, CurSt, env))

SrErr ==
  \E msg \in UserMsgs : \E env \in EnvsFor(sr_log_cb, SR_LOG_ERR, CurSt) :
    Emit("sr_err", 0, sr_err(sr_log_cb, sr_log_cb_data, msg, CurSt, env))

Next ==
  \/ LoglevelSet
  \/ sr_log_loglevel_get
  \/ LogoptsSet
  \/ sr_log_logopts_get
  \/ sr_log_logdomain_set_null
  \/ LogdomainSet
  \/ sr_log_logdomain_get
  \/ CallbackSet
  \/ sr_log_callback_set_default
  \/ SrLog
  \/ SrSpew
  \/ SrDbg
  \/ SrInfo
  \/ SrWarn
  \/ SrErr

Spec == Init /\ [][Next]_vars

(***************************************************************************)
(* Two threads: one calls sr_log_callback_set() with a callback that is    *)
(* not NULL, the other calls sr_err().  Nothing in log.c synchronises      *)
(* them.  The setter stores sr_log_cb, then sr_log_cb_data (log.c:241-242);*)
(* the emitter loads both for the call sr_log_cb(sr_log_cb_data, ...)      *)
(* (log.c:401), in an order C leaves unspecified.                          *)
(***************************************************************************)
ConcCallbacks == {"cb_a", "cb_b"}
ConcContexts == {"ctx1", "ctx2"}
ConcMsg == MsgD("failed: %d", 8, 42)

Loading == th.epc = "loading"

(* log.c:232-239 *)
SetEnter ==
  \E cb \in ConcCallbacks : \E cb_data \in ConcContexts :
    /\ th.spc = "idle"
    /\ th' = [th EXCEPT !.spc = "entered", !.scb = cb, !.sdata = cb_data,
                        !.pairs = @ \cup {<<cb, cb_data>>},
                        !.overlap = @ \/ Loading]
    /\ UNCHANGED <<config, errout, calls, op>>

(* sr_log_cb_data = NULL; instead of the argument *)
SetStoreData_Null ==
  /\ th.spc = "cb_stored"
  /\ sr_log_cb_data' = NULL
  /\ th' = [th EXCEPT !.spc = "data_stored", !.overlap = @ \/ Loading]
  /\ UNCHANGED <<cur_loglevel, cur_logopts, sr_log_cb, sr_log_domain, errout, calls, op>>

(* log.c:241 *)
SetStoreCb ==
  /\ th.spc = "entered"
  /\ sr_log_cb' = th.scb
  /\ th' = [th EXCEPT !.spc = "cb_stored", !.overlap = @ \/ Loading]
  /\ UNCHANGED <<cur_loglevel, cur_logopts, sr_log_cb_data, sr_log_domain, errout, calls, op>>

(* log.c:242 *)
SetStoreData ==
  /\ th.spc = "cb_stored"
  /\ sr_log_cb_data' = th.sdata
  /\ th' = [th EXCEPT !.spc = "data_stored", !.overlap = @ \/ Loading]
  /\ UNCHANGED <<cur_loglevel, cur_logopts, sr_log_cb, sr_log_domain, errout, calls, op>>

(* log.c:244 *)
SetReturn ==
  /\ th.spc = "data_stored"
  /\ th' = [th EXCEPT !.spc = "idle", !.last = <<th.scb, th.sdata>>]
  /\ UNCHANGED <<config, errout, calls, op>>

(* log.c:395-400 *)
ErrEnter ==
  /\ th.epc = "idle"
  /\ th' = [th EXCEPT !.epc = "loading", !.ldcb = FALSE, !.lddata = FALSE,
                      !.ecb = NULL, !.edata = NULL, !.seen = th.last,
                      !.overlap = (th.spc # "idle")]
  /\ UNCHANGED <<config, errout, calls, op>>

(* log.c:401, the load of sr_log_cb *)
ErrLoadCb ==
  /\ Loading /\ ~th.ldcb
  /\ th' = [th EXCEPT !.ecb = sr_log_cb, !.ldcb = TRUE]
  /\ UNCHANGED <<config, errout, calls, op>>

(* log.c:401, the load of sr_log_cb_data *)
ErrLoadData ==
  /\ Loading /\ ~th.lddata
  /\ th' = [th EXCEPT !.edata = sr_log_cb_data, !.lddata = TRUE]
  /\ UNCHANGED <<config, errout, calls, op>>

(* log.c:401, the call *)
ErrCall ==
  /\ Loading /\ th.ldcb /\ th.lddata
  /\ LET r == sr_err(th.ecb, th.edata, ConcMsg, CurSt, "ok")
     IN  /\ errout' = r.out
         /\ calls' = r.calls
         /\ op' = Op("sr_err", 0, <<>>, NULL, NULL, r.ret)
  /\ th' = [th EXCEPT !.epc = "called"]
  /\ UNCHANGED config

(* log.c:402-404 *)
ErrReturn ==
  /\ th.epc = "called"
  /\ th' = [th EXCEPT !.epc = "idle"]
  /\ UNCHANGED <<config, errout, calls, op>>

NextConc ==
  \/ SetEnter
  \/ SetStoreCb
  \/ SetStoreData
  \/ SetReturn
  \/ ErrEnter
  \/ ErrLoadCb
  \/ ErrLoadData
  \/ ErrCall
  \/ ErrReturn

SpecConc == Init /\ [][NextConc]_vars

(***************************************************************************)
(* The properties.                                                         *)
(***************************************************************************)
EmissionNames == {"sr_spew", "sr_dbg", "sr_info", "sr_warn", "sr_err"}

SeverityOf(name) ==
  CASE name = "sr_spew" -> SR_LOG_SPEW
    [] name = "sr_dbg" -> SR_LOG_DBG
    [] name = "sr_info" -> SR_LOG_INFO
    [] name = "sr_warn" -> SR_LOG_WARN
    [] name = "sr_err" -> SR_LOG_ERR

IsEmission == op.name \in EmissionNames
DefaultEmitter == sr_log_cb = "sr_logv"
WroteLine == errout # <<>> /\ errout[Len(errout)].kind = "newline"

(* C1: with the default callback registered, an emission call at severity S
   under threshold T writes a line iff S <= T; when S > T it writes nothing
   and returns 0. *)
C1_FilterIff ==
  (IsEmission /\ DefaultEmitter) =>
    /\ cur_loglevel \in SR_LOG_NONE..SR_LOG_SPEW
    /\ WroteLine <=> SeverityOf(op.name) <= cur_loglevel
    /\ SeverityOf(op.name) > cur_loglevel => (errout = <<>> /\ op.ret = 0)

C1_Witness ==
  /\ op.name = "sr_info" /\ DefaultEmitter
  /\ cur_loglevel = SR_LOG_INFO /\ WroteLine

Rejected(o) ==
  \/ o.name = "loglevel_set" /\ (o.n < SR_LOG_NONE \/ o.n > SR_LOG_SPEW)
  \/ o.name = "logopts_set" /\ (o.n < 0 \/ o.n > ALL_LOGOPTS)
  \/ o.name = "logdomain_set_null"
  \/ o.name = "callback_set" /\ o.cb = NULL

(* C2: a rejected setter call (level or option mask out of range, NULL
   domain, NULL callback) returns SR_ERR_ARG and leaves threshold, options,
   domain, callback and context as they were. *)
C2_RejectedUnchanged ==
  [][Rejected(op') => (op'.ret = SR_ERR_ARG /\ config' = config)]_vars

C2_Witness ==
  /\ op.name = "loglevel_set" /\ op.n = SR_LOG_SPEW + 1 /\ op.ret = SR_ERR_ARG
  /\ sr_log_cb = "cb_a" /\ sr_log_cb_data = "ctx1"
  /\ cur_loglevel = SR_LOG_NONE
  /\ Len(calls) = 1

(* C3: an emission call invokes the registered callback exactly once, with
   the registered context and the function's own severity, whatever the
   threshold, and returns the callback's result. *)
C3_ForwardOnce ==
  IsEmission =>
    /\ Len(calls) = 1
    /\ calls[1].cb = sr_log_cb
    /\ calls[1].data = sr_log_cb_data
    /\ calls[1].level = SeverityOf(op.name)
    /\ op.ret = calls[1].ret
    /\ ~DefaultEmitter =>
         op.ret = UserCbResult(sr_log_cb, sr_log_cb_data, SeverityOf(op.name), calls[1].msg)

C3_Witness ==
  /\ op.name = "sr_warn" /\ sr_log_cb = "cb_a" /\ sr_log_cb_data = "ctx1"
  /\ cur_loglevel = SR_LOG_NONE
  /\ Len(calls) = 1 /\ calls[1].level = SR_LOG_WARN /\ op.ret = calls[1].msg.len

(* C4: sr_log_callback_set_default() can be called in every state, returns
   SR_OK, registers the default callback with a NULL context, leaves
   threshold, options and domain alone, and neither invokes a callback nor
   writes anything. *)
C4_ResetToDefault ==
  /\ []ENABLED sr_log_callback_set_default
  /\ [][op'.name = "callback_set_default" =>
          /\ op'.ret = SR_OK
          /\ sr_log_cb' = "sr_logv" /\ sr_log_cb_data' = NULL
          /\ UNCHANGED <<cur_loglevel, cur_logopts, sr_log_domain>>
          /\ calls' = <<>> /\ errout' = <<>>]_vars

C4_Witness ==
  /\ op.name = "callback_set_default" /\ op.ret = SR_OK
  /\ sr_log_cb = "sr_logv" /\ sr_log_cb_data = NULL
  /\ cur_loglevel = SR_LOG_SPEW /\ cur_logopts # SR_LOG_NOOPTS
  /\ calls = <<>>

(* C5: sr_log_logdomain_set(text) followed by sr_log_logdomain_get() returns
   the first 30 characters of text (all of it when it has 30 or fewer). *)
C5_DomainRoundTrip ==
  [][(op.name = "logdomain_set" /\ op'.name = "logdomain_get")
       => op'.rets = Take(op.s, 30)]_vars

(* C6 as stated: with the default callback registered, an error-severity
   emission call writes its line under every threshold the setter accepts. *)
C6_ErrorAlwaysWritten ==
  (op.name = "sr_err" /\ DefaultEmitter) => WroteLine

(* C6 as amended: with the default callback registered, an error-severity
   emission call writes its line under every threshold from ERR to SPEW
   and writes nothing under NONE, which the setter accepts. *)
C6_ErrorWrittenUnlessNone ==
  (op.name = "sr_err" /\ DefaultEmitter) =>
    /\ cur_loglevel \in SR_LOG_ERR..SR_LOG_SPEW => WroteLine
    /\ cur_loglevel = SR_LOG_NONE => (errout = <<>> /\ op.ret = SR_OK)

C6_Witness ==
  /\ op.name = "sr_err" /\ DefaultEmitter
  /\ cur_loglevel = SR_LOG_NONE /\ errout = <<>>

(* C7 as stated: an emission that runs concurrently with
   sr_log_callback_set() invokes a callback with the context it was
   registered with, never the callback of one registration with the
   context of another. *)
C7_PairNeverMixed ==
  th.epc = "called" => <<calls[1].cb, calls[1].data>> \in th.pairs

(* C7 as amended: sr_log_callback_set() replaces the callback and the
   context in two separate stores.  An emission whose loads overlap no
   setter call invokes the pair the last returned setter call registered;
   one that overlaps a setter call invokes a registered callback with a
   registered context, which may belong to different registrations. *)
C7_PairMatchesUnlessOverlap ==
  th.epc = "called" =>
    /\ Len(calls) = 1
    /\ calls[1].cb \in {p[1] : p \in th.pairs}
    /\ calls[1].data \in {p[2] : p \in th.pairs}
    /\ ~th.overlap => <<calls[1].cb, calls[1].data>> = th.seen

C7_Witness ==
  /\ th.epc = "called" /\ ~th.overlap
  /\ th.seen = <<"cb_b", "ctx2">>
  /\ calls[1].cb = "cb_b" /\ calls[1].data = "ctx2"
  /\ <<"cb_a", "ctx1">> \in th.pairs

(* the default callback ran and its message passed the filter *)
PassedDefault ==
  /\ Len(calls) = 1
  /\ calls[1].cb = "sr_logv"
  /\ calls[1].level <= calls[1].lvlAtCall

KindsOf(segs) == [i \in 1..Len(segs) |-> segs[i].kind]
DiagKinds == {"gmtime_r() failed", "localtime_r() failed"}

ExpectedLine(opts, dom) ==
  (IF HasFlag(opts, SR_LOG_DATE) THEN <<"YYYYMMDD ">> ELSE <<>>)
  \o (IF (opts % 16) \div 2 = 0 THEN <<>>
      ELSE <<"HHMMSS", IF opts % 16 >= 8 THEN ",UUUUUU "
                       ELSE IF opts % 8 >= 4 THEN ",MMM " ELSE " ">>)
  \o (IF Len(dom) > 0 THEN <<"domain">> ELSE <<>>)
  \o <<"message", "newline">>

(* C8: for every option mask, a message that passes the filter of the
   default callback is written as: the date iff DATE is set; then HHMMSS iff
   one of TIME, TIME_MS, TIME_US is set, followed by the microseconds if
   TIME_US is set, else the milliseconds if TIME_MS is set, else a space;
   then the domain iff it is not empty; then the message; then one newline.
   UTC alone gives no timestamp.  (Only the diagnostic of a failed clock
   conversion can precede these, and only when a timestamp is rendered.) *)
C8_SegmentOrder ==
  PassedDefault =>
    LET line == KindsOf(errout)
        want == ExpectedLine(cur_logopts, sr_log_domain)
    IN  /\ cur_logopts \in SR_LOG_NOOPTS..ALL_LOGOPTS
        /\ \/ line = want
           \/ /\ cur_logopts \notin {SR_LOG_NOOPTS, SR_LOG_UTC}
              /\ line # <<>> /\ Head(line) \in DiagKinds /\ Tail(line) = want

C8_Witness ==
  /\ IsEmission /\ PassedDefault
  /\ cur_logopts = SR_LOG_DATE + SR_LOG_TIME_MS + SR_LOG_TIME_US
  /\ sr_log_domain # <<>>
  /\ KindsOf(errout) = <<"YYYYMMDD ", "HHMMSS", ",UUUUUU ", "domain", "message", "newline">>

(* C9: for a message that passes the filter, the default callback returns
   the number of characters it wrote to stderr: timestamp, domain, message
   and newline. *)
C9_ReturnsTotalWritten ==
  (IsEmission /\ PassedDefault) => op.ret = SumLen(errout)

(* C10: sr_log_loglevel_set(L) with a valid L stores L before it emits its
   debug confirmation: the callback is invoked once, at DBG, with the
   threshold already L, the threshold is L after the call, and the default
   callback writes the confirmation iff L is DBG or SPEW. *)
C10_CommitBeforeConfirm ==
  (op.name = "loglevel_set" /\ op.ret = SR_OK) =>
    /\ cur_loglevel = op.n
    /\ Len(calls) = 1
    /\ calls[1].level = SR_LOG_DBG
    /\ calls[1].lvlAtCall = op.n
    /\ DefaultEmitter => (WroteLine <=> op.n \in {SR_LOG_DBG, SR_LOG_SPEW})

C10_Witness ==
  /\ op.name = "loglevel_set" /\ op.ret = SR_OK /\ op.n = SR_LOG_DBG
  /\ DefaultEmitter /\ WroteLine
====
